---- MODULE Spec2Model ----
(***************************************************************************)
(* The chat server of src/server.py as a state machine.                    *)
(*                                                                         *)
(* One coroutine (handle_client) runs per connected session on a single    *)
(* asyncio event loop.  Code between two `await`s runs without             *)
(* interruption; at every `await` (reader.read, writer.drain) any other    *)
(* session's coroutine may run.  A step of the model is therefore the code *)
(* of one session from one await to the next one.                          *)
(*                                                                         *)
(* Strings are modelled as sequences of one-character strings, so that     *)
(* str.lower(), str.isalnum(), slicing and len() are computed and not      *)
(* assumed.  A chat line is a short body followed by `pad` filler          *)
(* characters, which lets a line be 400 or 401 characters long.            *)
(*                                                                         *)
(* The specifications below differ in the input the clients send, in       *)
(* whether the history store may raise, and in what is observed.           *)
(***************************************************************************)
EXTENDS Integers, Sequences, FiniteSets, TLC

\* ------------------------------------------------------------------ bounds
NumSessions == 3
MaxOps == 2

Sessions == 1..NumSessions

\* ------------------------------------------------------- program constants
MaxNickLen == 24
MaxChatLen == 400

\* ----------------------------------------------------------------- strings
Guest == <<"G", "u", "e", "s", "t">>
Alice == <<"A", "l", "i", "c", "e">>
alice == <<"a", "l", "i", "c", "e">>
Bob   == <<"B", "o", "b">>
Bang  == <<"!">>

UpperToLower ==
    [c \in {"A", "B", "G", "D", "M", "N", "O"} |->
        CASE c = "A" -> "a" [] c = "B" -> "b" [] c = "G" -> "g" [] c = "D" -> "d"
          [] c = "M" -> "m" [] c = "N" -> "n" [] c = "O" -> "o"]

Digits == <<"0", "1", "2", "3", "4", "5", "6", "7", "8", "9">>

AlnumChars ==
    {"A", "B", "G", "D", "M", "N", "O",
     "a", "b", "c", "d", "e", "f", "g", "i", "l", "m", "n", "o", "s", "t", "u", "x"}
        \cup {Digits[i] : i \in DOMAIN Digits}

\* str.lower()
LowerChar(c) == IF c \in DOMAIN UpperToLower THEN UpperToLower[c] ELSE c
Lower(n) == [i \in 1..Len(n) |-> LowerChar(n[i])]

\* str.isalnum(): non-empty and every character alphanumeric
IsAlnum(n) == Len(n) > 0 /\ \A i \in 1..Len(n) : n[i] \in AlnumChars

\* c in n
Contains(n, c) == \E i \in 1..Len(n) : n[i] = c

\* n[:24]
Truncate(n) == SubSeq(n, 1, IF Len(n) < MaxNickLen THEN Len(n) ELSE MaxNickLen)

\* str.isdigit(): non-empty and every character a digit
IsDigit(n) == Len(n) > 0 /\ \A i \in 1..Len(n) : \E d \in DOMAIN Digits : Digits[d] = n[i]

\* int(n) of a string of digits
DigitValue(c) == (CHOOSE d \in DOMAIN Digits : Digits[d] = c) - 1

RECURSIVE ParseInt(_)
ParseInt(n) ==
    IF n = <<>> THEN 0
    ELSE 10 * ParseInt(SubSeq(n, 1, Len(n) - 1)) + DigitValue(n[Len(n)])

\* str(k) of a number that is not negative
RECURSIVE FormatInt(_)
FormatInt(k) ==
    IF k < 10 THEN <<Digits[k + 1]>>
    ELSE Append(FormatInt(k \div 10), Digits[(k % 10) + 1])

\* n.split(): the words of n between blanks
RECURSIVE Split(_)
Split(n) ==
    IF n = <<>> THEN <<>>
    ELSE IF Head(n) = " " THEN Split(Tail(n))
    ELSE LET stop == IF Contains(n, " ")
                     THEN (CHOOSE i \in 1..Len(n) :
                              n[i] = " " /\ \A j \in 1..(i - 1) : n[j] # " ") - 1
                     ELSE Len(n)
         IN  <<SubSeq(n, 1, stop)>> \o Split(SubSeq(n, stop + 1, Len(n)))

\* A line of text: `body` followed by `pad` filler characters.
Text(body, pad) == [body |-> body, pad |-> pad]
NoText == Text(<<>>, 0)
Hi == Text(<<"h", "i">>, 0)
LineLen(t) == Len(t.body) + t.pad

\* ------------------------------------------------------------- input lines
\* One stripped, non-empty line of client input, already split as
\* handle_command splits it: the verb, the first token of the arguments and
\* the text after the first blank.
Line(cmd, arg, text) == [cmd |-> cmd, arg |-> arg, text |-> text]
NoLine == Line("none", <<>>, NoText)

NickArgs == {Guest, Alice, alice, Bob, Bang}
UnderBang == <<"_", "!">>
TooLongName == [i \in 1..(MaxNickLen + 1) |-> "a"]
Targets == {Guest, Alice}
ChatTexts == {Text(<<"h", "i">>, MaxChatLen - 2), Text(<<"h", "i">>, MaxChatLen - 1)}

Inputs ==
    {Line("nick", n, NoText) : n \in NickArgs \cup {<<>>}}
        \cup {Line("msg", t, Hi) : t \in Targets}
        \cup {Line("msg", Alice, NoText)}
        \cup {Line("chat", <<>>, x) : x \in ChatTexts}

\* ---------------------------------------------------------- outbound lines
\* An outbound line before per-recipient rendering: its kind and the values
\* interpolated into it.
M(kind, a, b, text) == [kind |-> kind, a |-> a, b |-> b, text |-> text]
NoMsg == M("none", <<>>, <<>>, NoText)

MOTD == <<"motd1", "motd2", "motd3", "motd4", "motd5">>

Banner(n) ==
    <<M("welcome", n, <<>>, NoText)>> \o [i \in 1..Len(MOTD) |-> M(MOTD[i], <<>>, <<>>, NoText)]

\* --------------------------------------------------------------- rendering
\* The text of a line that broadcast or send_to is given, as the f-string of
\* its caller builds it.  The time of day is one token.
Render(m) ==
    CASE m.kind = "chat" ->
            Text(<<"[", "hh:mm", "]", " ", "<">> \o m.a \o <<">", " ">> \o m.text.body, m.text.pad)
      [] m.kind = "dm_in" ->
            Text(<<"[", "hh:mm", "]", " ", "←", " ">> \o m.a \o <<" ">> \o m.text.body, m.text.pad)
      [] m.kind = "joined" -> Text(<<"*", " ">> \o m.a \o <<" has joined the chat">>, 0)
      [] m.kind = "left" -> Text(<<"*", " ">> \o m.a \o <<" has left">>, 0)
      [] m.kind = "renamed" -> Text(<<"*", " ">> \o m.a \o <<" is now known as ">> \o m.b, 0)

\* COLORS: an escape sequence is ESC [ code m
Esc(code) == <<"ESC", "[">> \o code \o <<"m">>
COLORS ==
    [reset |-> Esc(<<"0">>), green |-> Esc(<<"3", "2">>), yellow |-> Esc(<<"3", "3">>),
     purple |-> Esc(<<"3", "5">>), cyan |-> Esc(<<"3", "6">>)]

\* str.replace(c, repl) for a one-character c: every occurrence of c in the
\* original is replaced, and what is put in is not looked at again.
RECURSIVE Replace(_, _, _)
Replace(x, c, repl) ==
    IF x = <<>> THEN <<>>
    ELSE (IF Head(x) = c THEN repl ELSE <<Head(x)>>) \o Replace(Tail(x), c, repl)

\* ChatServer.apply_color with colours enabled: the six replace calls, each
\* applied to the result of the one before.
Colorize(x) ==
    LET r1 == Replace(x, "<", COLORS.green \o <<"<">>)
        r2 == Replace(r1, ">", <<">">> \o COLORS.reset)
        r3 == Replace(r2, "[", COLORS.yellow \o <<"[">>)
        r4 == Replace(r3, "]", <<"]">> \o COLORS.reset)
        r5 == Replace(r4, "→", COLORS.cyan \o <<"→">> \o COLORS.reset)
    IN  Replace(r5, "←", COLORS.purple \o <<"←">> \o COLORS.reset)

\* apply_color with the test of the flag left out
ApplyColorAlways(enabled, x) == Text(Colorize(x.body), x.pad)

\* ChatServer.apply_color(user, text).  The filler characters of a text are
\* none of the six marked characters.
ApplyColor(enabled, x) == IF ~enabled THEN x ELSE Text(Colorize(x.body), x.pad)

\* ---------------------------------------------------------------- registry
\* ChatServer.users is a dict: insertion-ordered, keys unique.
Entry(k, u) == [key |-> k, user |-> u]
Keys(d) == {d[i].key : i \in DOMAIN d}
Has(d, k) == k \in Keys(d)
Get(d, k) == d[CHOOSE i \in DOMAIN d : d[i].key = k].user
Values(d) == {d[i].user : i \in DOMAIN d}

\* d[k] = u
DictSet(d, k, u) ==
    IF Has(d, k)
    THEN [i \in DOMAIN d |-> IF d[i].key = k THEN Entry(k, u) ELSE d[i]]
    ELSE Append(d, Entry(k, u))

\* d.pop(k, None)
DictPop(d, k) == SelectSeq(d, LAMBDA e : e.key # k)

VARIABLES
    users,      \* chat_server.users
    nick,       \* user.nick of each session
    pc,         \* where each session's handle_client coroutine is suspended
    todo,       \* broadcast: the snapshot entries not yet written to
    bmsg,       \* broadcast: the message
    cont,       \* broadcast: what the caller does when broadcast returns
    history,    \* the rows of table messages, by id
    colors,     \* user.colors_enabled of each session
    inbox,      \* the lines of the data read that are still to be handled
    nread,      \* observation: the number of lines a session has sent so far
    wire,       \* observation: per recipient, the chat lines written to it
    sent,       \* observation: per row inserted, the session that sent it and
                \* the sessions send_to wrote it to
    ops,        \* input lines processed so far
    cur,        \* per session: the line in progress and what it did so far
    last        \* the last step: who took it, from where, what it completed

vars ==
    <<users, nick, pc, todo, bmsg, cont, history, colors, inbox, nread, wire, sent, ops, cur,
      last>>

\* The mutable state a coroutine step reads and writes, as one value, so that
\* the calls a step makes can be composed as the code composes them.
State ==
    [users |-> users, nick |-> nick, pc |-> pc, todo |-> todo, bmsg |-> bmsg,
     cont |-> cont, history |-> history, colors |-> colors, inbox |-> inbox,
     wire |-> wire, sent |-> sent, cur |-> cur, handled |-> <<>>]

\* The record of one handled line (observation only): the line, its place
\* in what the session has sent, and what it has done so far.  `outs` holds
\* the text as written to the recipient by broadcast and send_to.
NewCur(l) ==
    [line |-> l, no |-> 0, writes |-> <<>>, outs |-> <<>>, snap |-> <<>>, lsnap |-> <<>>,
     holder |-> {}, stored |-> 0, failed |-> FALSE, wfail |-> FALSE]

NoCur == NewCur(NoLine)

\* The record of the last step (observation only), kept when the step read a
\* line, completed one or had a write fail: the session that took it, the
\* line it read if it read one, the registry, nicknames and number of rows
\* and colour flags it started from, whether a write to a recipient failed
\* in it, the record of the line it completed, if any, and the lines it
\* began to handle.  Of a step that went on from one line of the data read
\* to the next, only the session and the lines it began are kept.
Pre(st) ==
    [users |-> st.users, nick |-> st.nick, rows |-> Len(st.history), colors |-> st.colors]

NoLast ==
    [who |-> {}, line |-> NoLine, wfail |-> FALSE, completed |-> FALSE, rec |-> NoCur,
     handled |-> <<>>,
     pre |-> [users |-> <<>>, nick |-> [s \in Sessions |-> Guest], rows |-> 0,
              colors |-> [s \in Sessions |-> FALSE]]]

\* The step of session s, which read line l (NoLine: none), leaves the state
\* st.  A line is complete when its coroutine is back at reader.read or has
\* closed its writer.
Becomes(st, s, l) ==
    /\ users' = st.users
    /\ nick' = st.nick
    /\ pc' = st.pc
    /\ todo' = st.todo
    /\ bmsg' = st.bmsg
    /\ cont' = st.cont
    /\ history' = st.history
    /\ colors' = st.colors
    /\ inbox' = st.inbox
    /\ LET completed == st.pc[s] \in {"idle", "closed"}
           wfail == st.cur[s].wfail
       IN  /\ cur' = [st.cur EXCEPT ![s] = IF completed THEN NoCur ELSE [@ EXCEPT !.wfail = FALSE]]
           /\ last' = IF st.handled # (IF l = NoLine THEN <<>> ELSE <<l>>)
                      THEN [NoLast EXCEPT !.who = {s}, !.handled = st.handled]
                      ELSE IF l = NoLine /\ ~completed /\ ~wfail THEN NoLast
                      ELSE [who |-> {s}, line |-> l, wfail |-> wfail, completed |-> completed,
                            handled |-> st.handled,
                            rec |-> IF completed THEN [st.cur[s] EXCEPT !.wfail = FALSE] ELSE NoCur,
                            pre |-> Pre(State)]

\* ------------------------------------------------------------------ writes
\* What the environment decides in one step: `fail`, the INSERT raises;
\* `drop`, the recipient written to has lost its connection.
Env == [fail : BOOLEAN, drop : BOOLEAN]

\* The store of a run: one whose INSERT never raises, or one whose INSERT may.
Reliable == {FALSE}
Faulty == BOOLEAN

\* The choices that can make a difference to a step: `fail` (from F, what
\* the store of the run may do) where the step may reach an INSERT, `drop`
\* where it may write to a recipient.
Choices(F, mayInsert, mayWrite) ==
    {e \in Env : e.fail \in F /\ (e.fail => mayInsert) /\ (e.drop => mayWrite)}

\* writer.write + drain to recipient r raise when r's connection is lost or
\* its writer was closed.
WriteFails(st, r, e) == e.drop \/ st.pc[r] = "closed"

WriteEvent(r, m, via) == [to |-> r, msg |-> m, via |-> via]

\* A write to a recipient was made by s and raised or not; the exception is
\* caught where it is raised (except: pass).
Wrote(st, s, ev, failed) ==
    [st EXCEPT !.cur[s].writes = Append(@, ev),
               !.cur[s].outs = Append(@, [to |-> ev.to, msg |-> ev.msg,
                                          text |-> ApplyColor(st.colors[ev.to], Render(ev.msg))]),
               !.cur[s].wfail = @ \/ failed,
               !.wire[ev.to] = IF ev.msg.kind = "chat"
                               THEN Append(@, [from |-> s, no |-> st.cur[s].no]) ELSE @]

\* send_msg(user.writer, text).  An error of the write is swallowed and has
\* no effect on anything, so it is not told apart from a write that succeeds.
SendMsg(st, s, m) ==
    [st EXCEPT !.cur[s].writes = Append(@, WriteEvent(s, m, "send_msg"))]

\* send_lines(writer, lines): one send_msg per line
SendLines(st, s, lines) ==
    [st EXCEPT !.cur[s].writes =
        @ \o [i \in 1..Len(lines) |-> WriteEvent(s, lines[i], "send_msg")]]

Idle(st, s) ==
    [st EXCEPT !.pc[s] = "idle", !.todo[s] = <<>>, !.bmsg[s] = NoMsg, !.cont[s] = "idle"]

Closed(st, s) ==
    [st EXCEPT !.pc[s] = "closed", !.todo[s] = <<>>, !.bmsg[s] = NoMsg, !.cont[s] = "idle",
               !.inbox[s] = <<>>]

\* --------------------------------------------------------------- broadcast
\* The users of the snapshot list(self.users.items()) that are not skipped.
Recipients(d, skip) ==
    LET f == SelectSeq(d, LAMBDA e : e.key \notin skip)
    IN  [i \in 1..Len(f) |-> f[i].user]

\* broadcast with the try around the whole loop: a failed write ends it
BroadcastWriteAbort(st, s, e) ==
    LET r == Head(st.todo[s])
        failed == e.drop \/ st.pc[r] = "closed"
    IN  [st EXCEPT !.cur[s].writes = Append(@, [to |-> r, msg |-> st.bmsg[s], via |-> "broadcast"]),
                   !.cur[s].wfail = @ \/ failed,
                   !.todo[s] = IF failed THEN <<>> ELSE Tail(@)]

\* One pass of the loop body of broadcast: the write to one recipient, whose
\* failure is caught and ignored.
BroadcastWrite(st, s, e) ==
    LET r == Head(st.todo[s])
    IN  [Wrote(st, s, WriteEvent(r, st.bmsg[s], "broadcast"), WriteFails(st, r, e))
            EXCEPT !.todo[s] = Tail(@)]

BroadcastBegin(st, s, m, skip, k) ==
    [st EXCEPT !.pc[s] = "bcast", !.todo[s] = Recipients(st.users, skip),
               !.bmsg[s] = m, !.cont[s] = k]

\* ------------------------------------------------------------- disconnect
LeaveAdvance(st, s, e) ==
    IF st.todo[s] # <<>> THEN BroadcastWrite(st, s, e) ELSE Closed(st, s)

\* the finally block with the leave notice sent before the entry is removed
FinallyAnnounceFirst(st, s, e) ==
    LET nick_lower == Lower(st.nick[s])
        d == IF Has(st.users, nick_lower) THEN DictPop(st.users, nick_lower) ELSE st.users
        st1 == [st EXCEPT !.cur[s].lsnap = st.users]
        st2 == BroadcastBegin(st1, s, M("left", st.nick[s], <<>>, NoText), {}, "close")
    IN  LeaveAdvance([st2 EXCEPT !.users = d], s, e)

\* The finally block of handle_client.
Finally(st, s, e) ==
    LET nick_lower == Lower(st.nick[s])
        d == IF Has(st.users, nick_lower) THEN DictPop(st.users, nick_lower) ELSE st.users
        st1 == [st EXCEPT !.users = d, !.cur[s].lsnap = d]
    IN  LeaveAdvance(BroadcastBegin(st1, s, M("left", st.nick[s], <<>>, NoText), {}, "close"), s, e)

\* ------------------------------------------------------------------- store
Row(from, to, text, dm) == [from |-> from, to |-> to, text |-> text, dm |-> dm]

RowOf(st, s) ==
    LET l == st.cur[s].line
    IN  IF l.cmd = "msg" THEN Row(st.nick[s], l.arg, l.text, TRUE)
        ELSE Row(st.nick[s], <<>>, l.text, FALSE)

\* Who sent the row that session s inserts, and to whom send_to wrote it.
SentOf(st, s) ==
    LET ws == st.cur[s].writes
    IN  [by |-> s, to |-> {ws[i].to : i \in {j \in DOMAIN ws : ws[j].via = "send_to"}}]

\* c.execute("INSERT ...") + commit; an error propagates to handle_client,
\* whose except/finally ends the session.
Insert(st, s, e) ==
    IF e.fail THEN Finally([st EXCEPT !.cur[s].failed = TRUE], s, e)
    ELSE Idle([st EXCEPT !.history = Append(@, RowOf(st, s)), !.cur[s].stored = @ + 1,
                         !.sent = Append(@, SentOf(st, s))], s)

\* What the caller of broadcast does once broadcast has returned.
Continue(st, s, e) ==
    CASE st.cont[s] = "idle" -> Idle(st, s)
      [] st.cont[s] = "confirm" ->
            Idle(SendMsg(st, s, M("you_are_now", st.nick[s], <<>>, NoText)), s)
      [] st.cont[s] = "store" -> Insert(st, s, e)

\* Resume a suspended broadcast: write to the next recipient, or return.
Advance(st, s, e) ==
    IF st.cont[s] = "close" THEN LeaveAdvance(st, s, e)
    ELSE IF st.todo[s] # <<>> THEN BroadcastWrite(st, s, e)
    ELSE Continue(st, s, e)

Broadcast(st, s, m, skip, k, e) ==
    Advance(BroadcastBegin([st EXCEPT !.cur[s].snap = st.users], s, m, skip, k), s, e)

\* ---------------------------------------------------------------- commands
\* handle_command, "nick": the character check of the new name
InvalidNick(newnick) ==
    ~IsAlnum(newnick) /\ ~Contains(newnick, "_") /\ ~Contains(newnick, "-")

\* the in-use check left out
NickTakenNever(d, new_lower, mine) == FALSE

\* handle_command, "nick": the in-use check
NickTaken(d, new_lower, mine) == Has(d, new_lower) /\ new_lower # Lower(mine)

\* the rename that registers under the name as typed
RenameUnfolded(d, old, newnick, s) == DictSet(DictPop(d, Lower(old)), newnick, s)

\* handle_command, "nick": the registry update of an accepted rename
Rename(d, old, newnick, s) == DictSet(DictPop(d, Lower(old)), Lower(newnick), s)

\* "nick" with the old entry removed before the in-use check
NickCmdPopFirst(st, s, arg, e) ==
    IF arg = <<>> THEN SendMsg(st, s, M("nick_usage", <<>>, <<>>, NoText))
    ELSE LET newnick == Truncate(arg)
             old == st.nick[s]
             st1 == [st EXCEPT !.users = DictPop(@, Lower(old))]
         IN  IF InvalidNick(newnick)
             THEN SendMsg(st, s, M("nick_invalid", <<>>, <<>>, NoText))
             ELSE IF Has(st1.users, Lower(newnick))
             THEN SendMsg(st1, s, M("nick_in_use", <<>>, <<>>, NoText))
             ELSE Broadcast([st1 EXCEPT !.users = DictSet(@, Lower(newnick), s),
                                        !.nick[s] = newnick],
                            s, M("renamed", old, newnick, NoText), {}, "confirm", e)

NickCmd(st, s, arg, e) ==
    IF arg = <<>> THEN SendMsg(st, s, M("nick_usage", <<>>, <<>>, NoText))
    ELSE LET newnick == Truncate(arg)
             old == st.nick[s]
         IN  IF InvalidNick(newnick)
             THEN SendMsg(st, s, M("nick_invalid", <<>>, <<>>, NoText))
             ELSE IF NickTaken(st.users, Lower(newnick), old)
             THEN SendMsg(st, s, M("nick_in_use", <<>>, <<>>, NoText))
             ELSE Broadcast([st EXCEPT !.users = Rename(st.users, old, newnick, s),
                                       !.nick[s] = newnick],
                            s, M("renamed", old, newnick, NoText), {}, "confirm", e)

\* handle_command, "msg"/"dm", up to the first await after the checks
MsgCmd(st, s, target, text) ==
    IF target = <<>> \/ text = NoText
    THEN SendMsg(st, s, M("msg_usage", <<>>, <<>>, NoText))
    ELSE LET target_lower == Lower(target)
         IN  IF target_lower = Lower(st.nick[s])
             THEN SendMsg(st, s, M("msg_self", <<>>, <<>>, NoText))
             ELSE IF ~Has(st.users, target_lower)
             THEN SendMsg(st, s, M("not_online", target, <<>>, NoText))
             ELSE [SendMsg(st, s, M("dm_out", target, <<>>, text))
                     EXCEPT !.pc[s] = "msgsend",
                            !.cur[s].holder = {Get(st.users, target_lower)}]

\* ChatServer.send_to, called after the confirmation was sent
SendTo(st, s, target, m, e) ==
    LET nick_lower == Lower(target)
    IN  IF Has(st.users, nick_lower)
        THEN LET user == Get(st.users, nick_lower)
             IN  [Wrote(st, s, WriteEvent(user, m, "send_to"), WriteFails(st, user, e))
                    EXCEPT !.pc[s] = "msgstore"]
        ELSE st

\* the length check off by one
TooLongFrom400(text) == LineLen(text) >= MaxChatLen

\* handle_client: the length check of a chat line
TooLong(text) == LineLen(text) > MaxChatLen

\* handle_client: a line that is not a command
ChatLine(st, s, text, e) ==
    IF TooLong(text) THEN SendMsg(st, s, M("too_long", <<>>, <<>>, NoText))
    ELSE Broadcast(st, s, M("chat", st.nick[s], <<>>, text), {Lower(st.nick[s])}, "store", e)

\* ----------------------------------------------------------------- history
HistoryDefault == 10
HistoryMax == 300

Min(a, b) == IF a < b THEN a ELSE b

\* the result of the query as fetched, without the reversal: newest first
LastRowsNewestFirst(rows, n) ==
    LET r == SubSeq(rows, Len(rows) - Min(n, Len(rows)) + 1, Len(rows))
    IN  [i \in 1..Len(r) |-> r[Len(r) + 1 - i]]

\* rows[::-1] of ORDER BY id DESC LIMIT n: the last n rows, oldest first
LastRows(rows, n) == SubSeq(rows, Len(rows) - Min(n, Len(rows)) + 1, Len(rows))

\* handle_command, "history": limit
HistoryLimit(args) ==
    Min(IF IsDigit(args) THEN ParseInt(args) ELSE HistoryDefault, HistoryMax)

\* handle_command, "history": the test for the private listing
HistoryDm(args) == Contains(args, " ") /\ Lower(Split(args)[2]) = <<"d", "m">>

\* WHERE from_nick = ? OR to_nick = ?   (to_nick is NULL in a public row)
Involves(row, n) == row.from = n \/ (row.dm /\ row.to = n)

\* The lines of the listing sent for the rows fetched.
HistoryLines(rows, dm, n) ==
    IF dm
    THEN <<M("hist_dm_head", FormatInt(Len(rows)), <<>>, NoText)>>
            \o [i \in 1..Len(rows) |->
                    IF rows[i].from = n
                    THEN M("hist_out", rows[i].to, <<>>, rows[i].text)
                    ELSE M("hist_in", rows[i].from, <<>>, rows[i].text)]
    ELSE <<M("hist_pub_head", FormatInt(Len(rows)), <<>>, NoText)>>
            \o [i \in 1..Len(rows) |-> M("hist_pub", rows[i].from, <<>>, rows[i].text)]

\* handle_command, "history".  An error of the query is not caught in
\* handle_command and ends the session like an error of the INSERT.  All the
\* rows are fetched before the first line is sent, and the lines go to the
\* session's own writer, so the awaits between them are not step boundaries.
HistoryCmd(st, s, args, e) ==
    IF e.fail THEN Finally([st EXCEPT !.cur[s].failed = TRUE], s, e)
    ELSE LET dm == HistoryDm(args)
             n == st.nick[s]
             found == IF dm THEN SelectSeq(st.history, LAMBDA r : Involves(r, n))
                      ELSE SelectSeq(st.history, LAMBDA r : ~r.dm)
         IN  SendLines(st, s, HistoryLines(LastRows(found, HistoryLimit(args)), dm, n))

\* ------------------------------------------------------------------ colour
OnOff(flag) == IF flag THEN <<"o", "n">> ELSE <<"o", "f", "f">>

\* handle_command, "color"
ColorCmd(st, s, args) ==
    IF Lower(args) = OnOff(TRUE)
    THEN SendMsg([st EXCEPT !.colors[s] = TRUE], s, M("color_enabled", <<>>, <<>>, NoText))
    ELSE IF Lower(args) = OnOff(FALSE)
    THEN SendMsg([st EXCEPT !.colors[s] = FALSE], s, M("color_disabled", <<>>, <<>>, NoText))
    ELSE SendMsg(st, s, M("color_current", OnOff(st.colors[s]), <<>>, NoText))

\* handle_command, "help"
HelpLines == <<"help1", "help2", "help3", "help4", "help5", "help6">>
HelpCmd(st, s) ==
    SendLines(st, s, [i \in 1..Len(HelpLines) |-> M(HelpLines[i], <<>>, <<>>, NoText)])

\* a verb that is not known handled as a chat line
HandleLineAsChat(st, s, l, e) ==
    CASE l.cmd = "nick" -> NickCmd(st, s, l.arg, e)
      [] l.cmd = "msg" -> MsgCmd(st, s, l.arg, l.text)
      [] l.cmd = "history" -> HistoryCmd(st, s, l.arg, e)
      [] l.cmd = "color" -> ColorCmd(st, s, l.arg)
      [] l.cmd = "help" -> HelpCmd(st, s)
      [] l.cmd = "chat" -> ChatLine(st, s, l.text, e)
      [] OTHER -> ChatLine(st, s, Hi, e)

\* One line of the loop of handle_client: a command goes to handle_command,
\* where a verb that matches no branch does nothing; any other line is chat.
HandleLine(st, s, l, e) ==
    CASE l.cmd = "nick" -> NickCmd(st, s, l.arg, e)
      [] l.cmd = "msg" -> MsgCmd(st, s, l.arg, l.text)
      [] l.cmd = "history" -> HistoryCmd(st, s, l.arg, e)
      [] l.cmd = "color" -> ColorCmd(st, s, l.arg)
      [] l.cmd = "help" -> HelpCmd(st, s)
      [] l.cmd = "chat" -> ChatLine(st, s, l.text, e)
      [] OTHER -> st

\* the lines of the data read, last line first
SplitLinesReversed(d, base) ==
    LET all == [i \in 1..Len(d) |-> [line |-> d[Len(d) + 1 - i], no |-> base + Len(d) + 1 - i]]
    IN  SelectSeq(all, LAMBDA x : x.line.cmd # "empty")

\* data.decode().splitlines(), strip, skip the empty ones: the lines to
\* handle, in the order sent.  `no` counts the lines the session has sent.
SplitLines(d, base) ==
    LET all == [i \in 1..Len(d) |-> [line |-> d[i], no |-> base + i]]
    IN  SelectSeq(all, LAMBDA x : x.line.cmd # "empty")

\* The loop over the lines of the data read: when a line is done without the
\* coroutine being suspended, or when its last await has returned, the next
\* line is handled in the same step.  The one choice e of the step serves:
\* a step writes to at most one recipient.
RECURSIVE Drain(_, _, _)
Drain(st, s, e) ==
    IF st.pc[s] = "idle" /\ st.inbox[s] # <<>>
    THEN LET x == Head(st.inbox[s])
             st1 == [st EXCEPT !.inbox[s] = Tail(@),
                               !.cur[s] = [NewCur(x.line) EXCEPT !.no = x.no],
                               !.handled = Append(@, x.line)]
         IN  Drain(HandleLine(st1, s, x.line, e), s, e)
    ELSE st

\* ------------------------------------------------------------------- runs
\* What a run is made of: what the store may do, the data the clients may
\* send in one read, and whether the chat lines written are logged.
Run(store, data, log) == [store |-> store, data |-> data, log |-> log]

Basic == Run(Reliable, {<<l>> : l \in Inputs}, FALSE)

\* The step of session s that leaves st, run on to the next await.
Step(st, s, l, P, e) ==
    LET st2 == Drain(st, s, e)
    IN  /\ Becomes(st2, s, l)
        /\ wire' = IF P.log THEN st2.wire ELSE wire
        /\ sent' = IF P.log THEN st2.sent ELSE sent

\* ----------------------------------------------------------------- actions
Init ==
    /\ users = <<>>
    /\ nick = [s \in Sessions |-> Guest]
    /\ pc = [s \in Sessions |-> "new"]
    /\ todo = [s \in Sessions |-> <<>>]
    /\ bmsg = [s \in Sessions |-> NoMsg]
    /\ cont = [s \in Sessions |-> "idle"]
    /\ history = <<>>
    /\ colors = [s \in Sessions |-> FALSE]
    /\ inbox = [s \in Sessions |-> <<>>]
    /\ nread = [s \in Sessions |-> 0]
    /\ wire = [s \in Sessions |-> <<>>]
    /\ sent = <<>>
    /\ ops = 0
    /\ cur = [s \in Sessions |-> NoCur]
    /\ last = NoLast

\* handle_client up to the broadcast of the join notice: the session
\* registers as Guest and is sent the banner.  Sessions are numbered in the
\* order in which their connections are accepted.  The awaits inside send_lines
\* are not step boundaries: between them the coroutine writes to its own
\* writer only and reads nothing another coroutine writes, so any step of
\* another session taken there gives the same state when taken after the
\* last banner line.
Connect(s) ==
    /\ pc[s] = "new"
    /\ \A r \in Sessions : r < s => pc[r] # "new"
    /\ LET st1 == [State EXCEPT !.users = DictSet(users, Lower(Guest), s),
                                !.nick[s] = Guest,
                                !.colors[s] = FALSE,
                                !.pc[s] = "banner",
                                !.cur[s] = NewCur(Line("connect", <<>>, NoText)),
                                !.handled = <<Line("connect", <<>>, NoText)>>]
       IN  Becomes(SendLines(st1, s, Banner(Guest)), s, Line("connect", <<>>, NoText))
    /\ UNCHANGED <<ops, nread, wire, sent>>

\* The drain of the last banner line returns: the join notice is broadcast.
Join(s, P) ==
    /\ pc[s] = "banner"
    /\ \E e \in Choices(Reliable, FALSE, TRUE) :
          Step(Broadcast(State, s, M("joined", nick[s], <<>>, NoText), {}, "idle", e),
               s, NoLine, P, e)
    /\ UNCHANGED <<ops, nread>>

MayStore(lines) == \E i \in DOMAIN lines : lines[i].line.cmd \in {"chat", "history"}
MayWrite(lines) == \E i \in DOMAIN lines : lines[i].line.cmd \in {"chat", "nick"}

\* reader.read returns data, whose first line is handled up to its first
\* await.
Input(s, P) ==
    /\ pc[s] = "idle"
    /\ ops < MaxOps
    /\ \E d \in P.data :
          LET lines == SplitLines(d, nread[s])
              l == IF lines = <<>> THEN NoLine ELSE Head(lines).line
          IN  /\ \E e \in Choices(P.store, MayStore(lines), MayWrite(lines)) :
                    Step([State EXCEPT !.inbox[s] = lines], s, l, P, e)
              /\ nread' = IF P.log THEN [nread EXCEPT ![s] = @ + Len(d)] ELSE nread
    /\ ops' = ops + 1

\* A drain inside broadcast returns.
BroadcastStep(s, P) ==
    /\ pc[s] = "bcast"
    /\ \E e \in Choices(P.store,
                        todo[s] = <<>> /\ (cont[s] = "store" \/ MayStore(inbox[s])), TRUE) :
          Step(Advance(State, s, e), s, NoLine, P, e)
    /\ UNCHANGED <<ops, nread>>

\* The drain of the confirmation returns: send_to, and if it wrote nothing
\* (no await) the insert follows at once.
SendToStep(s, P) ==
    /\ pc[s] = "msgsend"
    /\ \E e \in Choices(P.store, ~Has(users, Lower(cur[s].line.arg)), TRUE) :
          LET l == cur[s].line
              st1 == SendTo(State, s, l.arg, M("dm_in", nick[s], <<>>, l.text), e)
          IN  IF st1.pc[s] = "msgstore" THEN Step(st1, s, NoLine, P, e)
              ELSE Step(Insert(st1, s, e), s, NoLine, P, e)
    /\ UNCHANGED <<ops, nread>>

\* The drain inside send_to returns: the insert.
StoreStep(s, P) ==
    /\ pc[s] = "msgstore"
    /\ \E e \in Choices(P.store, TRUE, TRUE) : Step(Insert(State, s, e), s, NoLine, P, e)
    /\ UNCHANGED <<ops, nread>>

\* reader.read returns b"" or raises: the finally block runs.
Disconnect(s, P) ==
    /\ pc[s] = "idle"
    /\ \E e \in Choices(Reliable, FALSE, TRUE) :
          Step(Finally([State EXCEPT !.cur[s] = NewCur(Line("eof", <<>>, NoText)),
                                     !.handled = <<Line("eof", <<>>, NoText)>>], s, e),
               s, Line("eof", <<>>, NoText), P, e)
    /\ UNCHANGED <<ops, nread>>

\* The server with a history store that works.
Next ==
    \E s \in Sessions :
        \/ Connect(s)
        \/ Join(s, Basic)
        \/ Input(s, Basic)
        \/ BroadcastStep(s, Basic)
        \/ SendToStep(s, Basic)
        \/ StoreStep(s, Basic)
        \/ Disconnect(s, Basic)

Spec == Init /\ [][Next]_vars

\* ------------------------------------------------- the server with a past
\* The table messages is kept in a file and outlives the server (init_db
\* creates it only if it is missing), so a run starts from the rows of the
\* runs before it: public lines of Guest and of Alice and, every fifth row,
\* a private message of Alice to Guest.  The texts differ in length.
StoredRow(i) ==
    IF i % 5 = 0 THEN Row(Alice, Guest, Text(<<"h", "i">>, i), TRUE)
    ELSE IF i % 2 = 1 THEN Row(Guest, <<>>, Text(<<"h", "i">>, i), FALSE)
    ELSE Row(Alice, <<>>, Text(<<"h", "i">>, i), FALSE)

Stored(n) == [i \in 1..n |-> StoredRow(i)]
StoredSizes == {0, 12, 380}

HistoryArgs ==
    {<<>>, <<"5">>, <<"0">>, <<"3", "0", "1">>, <<"x">>, <<"5", " ", "x">>,
     <<"5", " ", "d", "m">>, <<"d", "m">>}

Asking ==
    Run(Reliable,
        {<<Line("history", a, NoText)>> : a \in HistoryArgs}
            \cup {<<Line("nick", Alice, NoText)>>},
        FALSE)

InitHistory ==
    /\ users = <<>>
    /\ nick = [s \in Sessions |-> Guest]
    /\ pc = [s \in Sessions |-> "new"]
    /\ todo = [s \in Sessions |-> <<>>]
    /\ bmsg = [s \in Sessions |-> NoMsg]
    /\ cont = [s \in Sessions |-> "idle"]
    /\ history \in {Stored(n) : n \in StoredSizes}
    /\ colors = [s \in Sessions |-> FALSE]
    /\ inbox = [s \in Sessions |-> <<>>]
    /\ nread = [s \in Sessions |-> 0]
    /\ wire = [s \in Sessions |-> <<>>]
    /\ sent = <<>>
    /\ ops = 0
    /\ cur = [s \in Sessions |-> NoCur]
    /\ last = NoLast

NextHistory ==
    \E s \in Sessions :
        \/ Connect(s)
        \/ Join(s, Asking)
        \/ Input(s, Asking)
        \/ BroadcastStep(s, Asking)
        \/ Disconnect(s, Asking)

SpecHistory == InitHistory /\ [][NextHistory]_vars

\* --------------------------------------- clients that send several lines
\* One read may return several lines.  The chat lines written are logged.
Bursts ==
    Run(Reliable,
        {<<Line("nick", Alice, NoText), Line("chat", <<>>, Hi)>>,
         <<Line("chat", <<>>, Hi), Line("empty", <<>>, NoText), Line("chat", <<>>, Hi)>>},
        TRUE)

NextOrder ==
    \E s \in Sessions :
        \/ Connect(s)
        \/ Join(s, Bursts)
        \/ Input(s, Bursts)
        \/ BroadcastStep(s, Bursts)
        \/ Disconnect(s, Bursts)

SpecOrder == Init /\ [][NextOrder]_vars

\* -------------------------------------- the server with a store that fails
\* The INSERT of a chat line or of a private message and the SELECT of
\* /history may raise.
Flaky ==
    Run(Faulty,
        {<<Line("nick", Alice, NoText)>>, <<Line("chat", <<>>, Hi)>>,
         <<Line("msg", Alice, Hi)>>, <<Line("history", <<>>, NoText)>>},
        FALSE)

NextFaulty ==
    \E s \in Sessions :
        \/ Connect(s)
        \/ Join(s, Flaky)
        \/ Input(s, Flaky)
        \/ BroadcastStep(s, Flaky)
        \/ SendToStep(s, Flaky)
        \/ StoreStep(s, Flaky)
        \/ Disconnect(s, Flaky)

SpecFaulty == Init /\ [][NextFaulty]_vars

\* ------------------------------------------- clients that try the commands
\* Names that are refused, accepted or cut, private messages that are
\* refused or delivered, the colour switch, /help and a verb that is not
\* known; and a client that sends its /nick and its /color on together.
CommandInputs ==
    {Line("nick", n, NoText) : n \in {<<>>, Alice, Bang, UnderBang, TooLongName}}
        \cup {Line("msg", Guest, Hi), Line("msg", Alice, Hi),
              Line("msg", Alice, NoText), Line("msg", <<>>, NoText)}
        \cup {Line("chat", <<>>, Text(<<"h", "i">>, MaxChatLen - 1)), Line("chat", <<>>, Hi)}
        \cup {Line("color", a, NoText) : a \in {<<"o", "n">>, <<"O", "N">>, <<"o", "f", "f">>, <<"x">>}}
        \cup {Line("quit", <<>>, NoText), Line("help", <<>>, NoText)}

Trying ==
    Run(Reliable,
        {<<l>> : l \in CommandInputs}
            \cup {<<Line("nick", Alice, NoText), Line("color", <<"o", "n">>, NoText)>>},
        FALSE)

NextCommands ==
    \E s \in Sessions :
        \/ Connect(s)
        \/ Join(s, Trying)
        \/ Input(s, Trying)
        \/ BroadcastStep(s, Trying)
        \/ SendToStep(s, Trying)
        \/ StoreStep(s, Trying)
        \/ Disconnect(s, Trying)

SpecCommands == Init /\ [][NextCommands]_vars

\* ------------------------------------------------- sessions that do leave
\* The store may raise, which ends a session like the end of its stream.
\* Every drain returns in the end: the peer goes on reading or its
\* connection breaks, and the event loop runs every coroutine that can run.
Leaving ==
    Run(Faulty, {<<Line("nick", Alice, NoText)>>, <<Line("chat", <<>>, Hi)>>}, FALSE)

NextLeave ==
    \E s \in Sessions :
        \/ Connect(s)
        \/ Join(s, Leaving)
        \/ Input(s, Leaving)
        \/ BroadcastStep(s, Leaving)
        \/ Disconnect(s, Leaving)

SpecLeave ==
    /\ Init
    /\ [][NextLeave]_vars
    /\ \A s \in Sessions : WF_vars(BroadcastStep(s, Leaving))

\* ================================================================== claims
\* A session is connected from the moment handle_client has registered it
\* until its finally block runs.
Connected(s) ==
    \/ pc[s] \in {"banner", "idle", "msgsend", "msgstore"}
    \/ pc[s] = "bcast" /\ cont[s] # "close"

\* The writes the last step's line has made so far.
LineWrites(s) == IF last.completed THEN last.rec.writes ELSE cur[s].writes

OfKind(ws, kind) == SelectSeq(ws, LAMBDA w : w.msg.kind = kind)
Receivers(ws) == {ws[i].to : i \in DOMAIN ws}
Reply(s, kind, a) == WriteEvent(s, M(kind, a, <<>>, NoText), "send_msg")

\* The entries of registry d that belong to sessions other than s are the
\* same in registry d2.
OthersKept(d, d2, s) ==
    \A i \in DOMAIN d : d[i].user # s => Has(d2, d[i].key) /\ Get(d2, d[i].key) = d[i].user

\* ---------------------------------------------------------------------- C1
\* C1: the set of values of the registry is exactly the set of connected
\* sessions, each connected session being the value of exactly one entry.
C1_RegistryIsConnected ==
    /\ Values(users) = {s \in Sessions : Connected(s)}
    /\ \A s \in Sessions :
          Connected(s) => Cardinality({i \in DOMAIN users : users[i].user = s}) = 1

\* ---------------------------------------------------------------------- C2
\* C2: every key of the registry is the lower-cased current nickname of the
\* session stored under it, after any connects, renames and disconnects.
C2_KeysAreFoldedNicks ==
    \A i \in DOMAIN users : users[i].key = Lower(nick[users[i].user])

\* A renamed session is registered under a key that differs from its
\* nickname by case, beside another entry, after some session has left.
C2_Witness ==
    /\ \E i \in DOMAIN users : nick[users[i].user] = Alice /\ users[i].key = alice
    /\ Len(users) >= 2
    /\ \E s \in Sessions : pc[s] = "closed"

\* ---------------------------------------------------------------------- C3
\* C3: a /nick whose folded new name is held in the registry by another
\* session gets the 'already in use' reply and nothing else, and no
\* nickname and no registry entry changes.
C3_TakenNickRejected ==
    \A s \in last.who :
        LET new_lower == Lower(Truncate(last.line.arg))
        IN  (/\ last.line.cmd = "nick"
             /\ last.line.arg # <<>>
             /\ Has(last.pre.users, new_lower)
             /\ Get(last.pre.users, new_lower) # s)
            => /\ last.completed
               /\ last.rec.writes = <<Reply(s, "nick_in_use", <<>>)>>
               /\ users = last.pre.users
               /\ nick = last.pre.nick

\* ---------------------------------------------------------------------- C4
\* C4: of the sessions that issue /nick Alice, the one whose check runs
\* while no other session holds the key 'alice' becomes Alice and is
\* registered under 'alice'; one whose check runs while another session
\* holds the key gets 'Nickname already in use' and keeps its nickname; and
\* at no time are two connected sessions named Alice in any spelling.
C4_OneWinner ==
    /\ \A s \in last.who :
          last.line = Line("nick", Alice, NoText)
          => IF Has(last.pre.users, alice) /\ Get(last.pre.users, alice) # s
             THEN /\ last.completed
                  /\ last.rec.writes = <<Reply(s, "nick_in_use", <<>>)>>
                  /\ nick[s] = last.pre.nick[s]
                  /\ Lower(nick[s]) # alice
                  /\ Get(users, alice) = Get(last.pre.users, alice)
             ELSE /\ nick[s] = Alice
                  /\ Has(users, alice)
                  /\ Get(users, alice) = s
                  /\ OfKind(LineWrites(s), "nick_in_use") = <<>>
    /\ Cardinality({s \in Sessions : Connected(s) /\ Lower(nick[s]) = alice}) <= 1

\* A session is refused Alice while the session that took the name from
\* Guest is still inside its own /nick Alice (its rename notice is being
\* broadcast): the two commands overlap.
C4_Witness ==
    \E s \in last.who, t \in Sessions :
        /\ s # t
        /\ last.line = Line("nick", Alice, NoText)
        /\ last.rec.writes = <<Reply(s, "nick_in_use", <<>>)>>
        /\ nick[s] = Guest
        /\ pc[t] = "bcast"
        /\ cur[t].line = Line("nick", Alice, NoText)
        /\ bmsg[t] = M("renamed", Guest, Alice, NoText)
        /\ nick[t] = Alice

\* ---------------------------------------------------------------------- C5
\* C5: a /nick to the session's own nickname or a case variant of it
\* succeeds, the session being registered under that key with the new
\* spelling, and changes no other session's nickname or registry entry.
C5_SelfRename ==
    \A s \in last.who :
        LET newnick == Truncate(last.line.arg)
        IN  (/\ last.line.cmd = "nick"
             /\ last.line.arg # <<>>
             /\ Lower(newnick) = Lower(last.pre.nick[s]))
            => /\ nick[s] = newnick
               /\ Has(users, Lower(newnick))
               /\ Get(users, Lower(newnick)) = s
               /\ \A t \in Sessions \ {s} : nick[t] = last.pre.nick[t]
               /\ OthersKept(last.pre.users, users, s)

\* ---------------------------------------------------------------------- C6
\* C6: an accepted public chat line is written to every session other than
\* the sender that was registered when the line was broadcast, and is not
\* written to the sender.
C6_ChatReachesOthers ==
    \A s \in last.who :
        (last.completed /\ last.rec.line.cmd = "chat" /\ ~TooLong(last.rec.line.text))
        => Receivers(OfKind(last.rec.writes, "chat")) = Values(last.rec.snap) \ {s}

\* ---------------------------------------------------------------------- C7
\* The snapshot a suspended broadcast iterates, and the key it skips.
BroadcastSnapshot(s) == IF cont[s] = "close" THEN cur[s].lsnap ELSE cur[s].snap
BroadcastSkip(s) == IF bmsg[s].kind = "chat" THEN {Lower(bmsg[s].a)} ELSE {}

\* The recipients a suspended broadcast has written to, in order.
BroadcastWritten(s) ==
    LET ws == SelectSeq(cur[s].writes, LAMBDA w : w.via = "broadcast" /\ w.msg = bmsg[s])
    IN  [i \in 1..Len(ws) |-> ws[i].to]

\* C7: a write of a broadcast that fails is contained.  The recipients
\* written to so far followed by those still to be written are at every
\* moment the recipients of the snapshot, so every remaining recipient is
\* written to whether or not a write failed; and the step in which a write
\* fails removes neither the recipient nor the sender from the registry and
\* does not send the sender into its disconnect path.
C7_FailureContained ==
    /\ \A s \in Sessions :
          pc[s] = "bcast"
          => BroadcastWritten(s) \o todo[s]
                = Recipients(BroadcastSnapshot(s), BroadcastSkip(s))
    /\ \A s \in last.who :
          (last.wfail /\ pc[s] = "bcast")
          => LET r == cur[s].writes[Len(cur[s].writes)].to
             IN  /\ r \in Values(last.pre.users) => r \in Values(users)
                 /\ last.line = NoLine => users = last.pre.users
                 /\ cur[s].line.cmd # "eof"
                    => /\ cont[s] # "close"
                       /\ s \in Values(last.pre.users) => s \in Values(users)

\* A write of a broadcast to a registered recipient other than the sender
\* has just failed, and recipients remain to be written to.
C7_Witness ==
    \E s \in last.who :
        /\ last.wfail
        /\ pc[s] = "bcast"
        /\ cont[s] # "close"
        /\ todo[s] # <<>>
        /\ LET r == cur[s].writes[Len(cur[s].writes)].to
           IN  r # s /\ r \in Values(users)

\* ---------------------------------------------------------------------- C8
\* C8: a /msg with a target and a text whose target key is not in the
\* registry writes the 'not online' reply to the sender and nothing else,
\* appends no row and leaves the registry unchanged.
C8_AbsentTarget ==
    \A s \in last.who :
        (/\ last.line.cmd = "msg"
         /\ last.line.arg # <<>>
         /\ last.line.text # NoText
         /\ ~Has(last.pre.users, Lower(last.line.arg)))
        => /\ last.completed
           /\ last.rec.writes = <<Reply(s, "not_online", last.line.arg)>>
           /\ Len(history) = last.pre.rows
           /\ users = last.pre.users

\* ---------------------------------------------------------------------- C9
\* C9: a /msg that sent the confirmation has, when it completes, written
\* the delivery line once, to the session registered under the target key
\* at the lookup, and appended one row with to_nick the target.
C9_DirectDelivered ==
    \A s \in last.who :
        (/\ last.completed
         /\ last.rec.line.cmd = "msg"
         /\ OfKind(last.rec.writes, "dm_out") # <<>>)
        => /\ Len(OfKind(last.rec.writes, "dm_in")) = 1
           /\ Receivers(OfKind(last.rec.writes, "dm_in")) = last.rec.holder
           /\ last.rec.stored = 1
           /\ history # <<>>
           /\ history[Len(history)] = Row(nick[s], last.rec.line.arg, last.rec.line.text, TRUE)

\* --------------------------------------------------------------------- C10
\* C10: a chat line of more than 400 characters gets the length error, sent
\* to the sender alone, and is neither broadcast nor stored; a chat line of
\* exactly 400 characters gets no length error, is handed to broadcast
\* (which writes it to the snapshot entries other than the sender's key) and
\* is stored as a public row.
C10_LengthLimit ==
    \A s \in last.who :
        /\ (last.line.cmd = "chat" /\ LineLen(last.line.text) > MaxChatLen)
           => /\ last.completed
              /\ last.rec.writes = <<Reply(s, "too_long", <<>>)>>
              /\ last.rec.stored = 0
              /\ Len(history) = last.pre.rows
        /\ (last.line.cmd = "chat" /\ LineLen(last.line.text) = MaxChatLen)
           => OfKind(LineWrites(s), "too_long") = <<>>
        /\ (last.completed /\ last.rec.line.cmd = "chat"
                /\ LineLen(last.rec.line.text) = MaxChatLen)
           => LET text == last.rec.line.text
                  ws == last.rec.writes
              IN  /\ \A i \in DOMAIN ws :
                        ws[i] = WriteEvent(ws[i].to, M("chat", nick[s], <<>>, text), "broadcast")
                  /\ [i \in DOMAIN ws |-> ws[i].to] = Recipients(last.rec.snap, {Lower(nick[s])})
                  /\ last.rec.stored = 1
                  /\ history # <<>>
                  /\ history[Len(history)] = Row(nick[s], <<>>, text, FALSE)

\* A chat line of exactly 400 characters, taken while two sessions were
\* registered, has been written to the other one and stored.
C10_Witness ==
    \E s \in last.who :
        /\ last.completed
        /\ last.rec.line.cmd = "chat"
        /\ LineLen(last.rec.line.text) = MaxChatLen
        /\ Len(last.rec.snap) = 2
        /\ s \in Values(last.rec.snap)
        /\ Receivers(OfKind(last.rec.writes, "chat")) = Values(last.rec.snap) \ {s}
        /\ last.rec.stored = 1

\* --------------------------------------------------------------------- C11
\* The public rows of the table, and the limit the listing is to have for
\* each argument sent: the number, 300 at most, or 10 without a number.
PublicRows == SelectSeq(history, LAMBDA r : ~r.dm)
ExpectedLimit(arg) ==
    CASE arg = <<"5">> -> 5
      [] arg = <<"0">> -> 0
      [] arg = <<"3", "0", "1">> -> 300
      [] OTHER -> 10

\* C11: /history with a number, without an argument or with a malformed one
\* sends, after the heading, exactly the last min(L, m) of the m public rows,
\* oldest first, and no private row, where L is the number (300 at most) or
\* 10 without a number.
C11_PublicHistory ==
    \A s \in last.who :
        (last.line.cmd = "history" /\ ~Contains(last.line.arg, "d"))
        => LET m == Len(PublicRows)
               k == IF ExpectedLimit(last.line.arg) < m
                    THEN ExpectedLimit(last.line.arg) ELSE m
               ws == last.rec.writes
           IN  /\ last.completed
               /\ Len(ws) = k + 1
               /\ ws[1].msg.kind = "hist_pub_head"
               /\ \A i \in 1..k :
                     ws[i + 1] = WriteEvent(s, M("hist_pub", PublicRows[m - k + i].from, <<>>,
                                                 PublicRows[m - k + i].text), "send_msg")

\* /history 301 was answered from more than 300 public rows, with private
\* rows among the rows of the table that the listing spans.
C11_Witness ==
    \E s \in last.who :
        /\ last.line = Line("history", <<"3", "0", "1">>, NoText)
        /\ Len(PublicRows) > HistoryMax
        /\ Len(last.rec.writes) = HistoryMax + 1
        /\ \E i \in DOMAIN history : i > Len(history) - HistoryMax /\ history[i].dm

\* --------------------------------------------------------------------- C12
\* The rows of the table that involve nickname n.
RowsOf(n) == SelectSeq(history, LAMBDA r : r.from = n \/ r.to = n)

\* C12: /history 5 dm and /history dm send, after the heading, the last
\* min(L, k) of the k rows in which the requester's nickname is from_nick or
\* to_nick, oldest first, where L is 5 for the first and 10 for the second.
C12_PrivateHistory ==
    \A s \in last.who :
        (last.line.cmd = "history" /\ last.line.arg \in {<<"5", " ", "d", "m">>, <<"d", "m">>})
        => LET mine == RowsOf(nick[s])
               L == IF last.line.arg = <<"d", "m">> THEN 10 ELSE 5
               k == IF L < Len(mine) THEN L ELSE Len(mine)
               ws == last.rec.writes
           IN  /\ last.completed
               /\ Len(ws) = k + 1
               /\ \A i \in 1..k : ws[i + 1].msg.text = mine[Len(mine) - k + i].text

\* --------------------------------------------------------------------- C13
\* The chat lines of sender s among those written to recipient r.
WrittenFrom(r, s) == SelectSeq(wire[r], LAMBDA w : w.from = s)

\* C13: the chat lines of one sender are written to each recipient in the
\* order in which the sender sent them: among the lines written to a
\* recipient, those of one sender appear by increasing position in what that
\* sender has sent.
C13_SenderOrder ==
    \A r \in Sessions, s \in Sessions :
        \A i \in DOMAIN WrittenFrom(r, s), j \in DOMAIN WrittenFrom(r, s) :
            i < j => WrittenFrom(r, s)[i].no < WrittenFrom(r, s)[j].no

\* A recipient has been written two chat lines of one sender, sent in one
\* read, while a chat line of another sender was written as well.
C13_Witness ==
    \E r \in Sessions, s \in Sessions, t \in Sessions :
        /\ r # s /\ t # s
        /\ Len(WrittenFrom(r, s)) = 2
        /\ \E q \in Sessions : WrittenFrom(q, t) # <<>>

\* --------------------------------------------------------------------- C14
\* C14: a session whose INSERT or SELECT raised stays connected: the line
\* in which the store failed does not take the session into its disconnect
\* path, and does not end it.
C14_StoreFailureSurvived ==
    /\ \A s \in Sessions : cur[s].failed => Connected(s)
    /\ \A s \in last.who : last.rec.failed => pc[s] = "idle"

\* --------------------------------------------------------------------- C15
\* The rule for a nickname: 1 to 24 characters, each alphanumeric, '_' or '-'.
WellFormed(n) ==
    /\ Len(n) >= 1
    /\ Len(n) <= MaxNickLen
    /\ \A i \in 1..Len(n) : n[i] \in AlnumChars \cup {"_", "-"}

\* C15: every session's nickname is well formed in every state, and a /nick
\* with a name that is not well formed is answered with the refusal and
\* leaves the nickname unchanged.
C15_NickWellFormed ==
    /\ \A s \in Sessions : WellFormed(nick[s])
    /\ \A s \in last.who :
          (last.line.cmd = "nick" /\ last.line.arg # <<>> /\ ~WellFormed(last.line.arg))
          => /\ nick[s] = last.pre.nick[s]
             /\ last.rec.writes = <<Reply(s, "nick_invalid", <<>>)>>

\* --------------------------------------------------------------------- C16
\* The replies by which a command or a chat line is refused.
Refusals ==
    {"nick_usage", "nick_invalid", "nick_in_use", "msg_usage", "msg_self", "not_online",
     "too_long"}

\* C16: a line that is refused writes its one reply to the session that sent
\* it and nothing to anybody else, and leaves the registry, every nickname,
\* every colour flag and the table as they were.
C16_RefusalChangesNothing ==
    \A s \in last.who :
        (\E i \in DOMAIN LineWrites(s) : LineWrites(s)[i].msg.kind \in Refusals)
        => /\ last.completed
           /\ Len(last.rec.writes) = 1
           /\ last.rec.writes[1].to = s
           /\ last.rec.writes[1].via = "send_msg"
           /\ users = last.pre.users
           /\ nick = last.pre.nick
           /\ colors = last.pre.colors
           /\ Len(history) = last.pre.rows
           /\ last.rec.stored = 0

\* A /nick to a name that another session holds has been refused while
\* some session has its colour flag set.
C16_Witness ==
    \E s \in last.who :
        /\ last.line = Line("nick", Alice, NoText)
        /\ last.rec.writes = <<Reply(s, "nick_in_use", <<>>)>>
        /\ Has(users, alice)
        /\ Get(users, alice) # s
        /\ \E t \in Sessions : colors[t]

\* --------------------------------------------------------------------- C17
\* What the writes that broadcast and send_to made for session s's line were
\* before a step and are after it.
OutsBefore(s) == cur[s].outs
OutsAfter(s) ==
    IF s \in last'.who /\ last'.completed THEN last'.rec.outs ELSE cur'[s].outs

\* The arguments of the /color lines that session s began in a step.
ColourHandled(s) ==
    IF s \in last'.who
    THEN {last'.handled[i].arg : i \in {j \in DOMAIN last'.handled : last'.handled[j].cmd = "color"}}
    ELSE {}

\* A step obeys the colour switch.
ColourStep ==
    /\ \A s \in Sessions :
          \A a \in ColourHandled(s) :
             /\ a \in {<<"o", "n">>, <<"O", "N">>} => colors'[s]
             /\ a = <<"o", "f", "f">> => ~colors'[s]
             /\ a = <<"x">>
                => /\ colors'[s] = colors[s]
                   /\ last'.line.cmd = "color"
                   /\ last'.rec.writes
                        = <<Reply(s, "color_current",
                                  IF colors[s] THEN <<"o", "n">> ELSE <<"o", "f", "f">>)>>
    /\ \A t \in Sessions : colors'[t] # colors[t] => ColourHandled(t) # {}
    /\ \A s \in Sessions :
          \A i \in (Len(OutsBefore(s)) + 1)..Len(OutsAfter(s)) :
              LET o == OutsAfter(s)[i]
              IN  IF colors[o.to]
                  THEN o.text = Text(Colorize(Render(o.msg).body), Render(o.msg).pad)
                  ELSE o.text = Render(o.msg)

\* C17: /color on sets and /color off clears the flag of the session that
\* sent it, in any case of the letters, and any other argument leaves it and
\* reports it; no step changes the flag of a session other than by that
\* session's /color; and every line broadcast or send_to writes to a session
\* is the text as given when the session's flag is off and the text with the
\* marker substitutions when it is on.
C17_ColourSwitch == [][ColourStep]_vars

\* A chat line has been written with the marker substitutions to another
\* session, whose flag is on, by a session whose flag is off.
C17_Witness ==
    \E s \in Sessions :
        /\ ~colors[s]
        /\ \E i \in DOMAIN cur[s].outs :
              LET o == cur[s].outs[i]
              IN  o.to # s /\ colors[o.to] /\ o.msg.kind = "chat" /\ o.text # Render(o.msg)

IsLeaving(s) == pc[s] = "bcast" /\ cont[s] = "close"

\* The session that has just closed its writer announced its leave to the
\* sessions registered once its own entry was removed, to each of them once
\* and in their order, and it is not one of them.
LeaveDone ==
    \A s \in last.who :
        (last.completed /\ pc[s] = "closed")
        => LET ws == OfKind(last.rec.writes, "left")
           IN  /\ [i \in DOMAIN ws |-> ws[i].to] = Recipients(last.rec.lsnap, {})
               /\ \A i \in DOMAIN ws :
                     ws[i] = WriteEvent(ws[i].to, M("left", nick[s], <<>>, NoText), "broadcast")
               /\ s \notin Values(last.rec.lsnap)

\* A leaving session goes on leaving until its writer is closed.
LeaveStep ==
    \A s \in Sessions : IsLeaving(s) => (IsLeaving(s))' \/ pc'[s] = "closed"

\* C18: a session whose connection ends, by the end of its stream or by an
\* error, is out of the registry from then on; it does nothing but announce
\* its leave until its writer is closed, which happens in the end (from some
\* moment on no session is still leaving); and by then its leave notice has
\* been written to every session that was registered once its entry was
\* removed, and not to itself.
C18_LeaveAnnounced ==
    /\ [](\A s \in Sessions : (IsLeaving(s) \/ pc[s] = "closed") => s \notin Values(users))
    /\ []LeaveDone
    /\ [][LeaveStep]_vars
    /\ <>[](\A s \in Sessions : ~IsLeaving(s))

\* A session ended by an error of the store has announced its leave to
\* another session and closed its writer.
C18_Witness ==
    \E s \in last.who :
        /\ last.completed
        /\ pc[s] = "closed"
        /\ last.rec.failed
        /\ OfKind(last.rec.writes, "left") # <<>>

\* --------------------------------------------------------------------- C20
\* C20: the disconnect of a session leaves the registry entry and the
\* nickname of every other session as they were.
C20_DisconnectRemovesOwnEntry ==
    \A s \in last.who :
        last.line.cmd = "eof"
        => /\ OthersKept(last.pre.users, users, s)
           /\ \A t \in Sessions \ {s} : nick[t] = last.pre.nick[t]

\* --------------------------------------------------------------------- C21
\* The six substitutions of apply_color in the order of the code: the
\* character looked for and what it is replaced with.
Substitutions ==
    <<[c |-> "<", repl |-> COLORS.green \o <<"<">>],
      [c |-> ">", repl |-> <<">">> \o COLORS.reset],
      [c |-> "[", repl |-> COLORS.yellow \o <<"[">>],
      [c |-> "]", repl |-> <<"]">> \o COLORS.reset],
      [c |-> "→", repl |-> COLORS.cyan \o <<"→">> \o COLORS.reset],
      [c |-> "←", repl |-> COLORS.purple \o <<"←">> \o COLORS.reset]>>

\* The replace calls chained in the given order of the substitutions.
RECURSIVE ColorizeIn(_, _)
ColorizeIn(x, order) ==
    IF order = <<>> THEN x
    ELSE ColorizeIn(Replace(x, Substitutions[Head(order)].c, Substitutions[Head(order)].repl),
                    Tail(order))

CodeOrder == [i \in 1..Len(Substitutions) |-> i]
OppositeOrder == [i \in 1..Len(Substitutions) |-> Len(Substitutions) + 1 - i]

\* Text x with each marked character of x itself replaced by its wrapped
\* form, and every other character kept.
RECURSIVE Wrapped(_)
Wrapped(x) ==
    IF x = <<>> THEN <<>>
    ELSE LET hit == {i \in DOMAIN Substitutions : Substitutions[i].c = Head(x)}
         IN  (IF hit = {} THEN <<Head(x)>> ELSE Substitutions[CHOOSE i \in hit : TRUE].repl)
                \o Wrapped(Tail(x))

\* The lines a step writes to sessions whose flag is on are wrapped so.
WrapStep ==
    \A s \in Sessions :
        \A i \in (Len(OutsBefore(s)) + 1)..Len(OutsAfter(s)) :
            LET o == OutsAfter(s)[i]
                given == Render(o.msg)
            IN  colors[o.to]
                => /\ o.text = Text(Wrapped(given.body), given.pad)
                   /\ ColorizeIn(given.body, OppositeOrder) = ColorizeIn(given.body, CodeOrder)

\* C21: a line written to a session whose colour flag is on is the text
\* given with every '<', '>', '[', ']', '→' and '←' of that text wrapped in
\* its colour and reset markers and nothing else altered: no character put
\* in by one substitution is rewritten by another, and the six substitutions
\* applied in the opposite order give the same text.
C21_WrapsInputOnly == [][WrapStep]_vars

\* --------------------------------------------------------------------- C22
\* Clients that take a name and write to Guest in one read, take a name,
\* write to Alice, or ask for their private messages.  The rows inserted are
\* logged with their sender and recipients.
Confiding ==
    Run(Reliable,
        {<<Line("nick", Alice, NoText), Line("msg", Guest, Hi)>>,
         <<Line("nick", Alice, NoText)>>,
         <<Line("msg", Alice, Hi)>>,
         <<Line("history", <<"5", " ", "d", "m">>, NoText)>>},
        TRUE)

NextPrivacy ==
    \E s \in Sessions :
        \/ Connect(s)
        \/ Join(s, Confiding)
        \/ Input(s, Confiding)
        \/ BroadcastStep(s, Confiding)
        \/ SendToStep(s, Confiding)
        \/ StoreStep(s, Confiding)
        \/ Disconnect(s, Confiding)

SpecPrivacy == Init /\ [][NextPrivacy]_vars

\* The rows that the private listing asked for with args shows to a session
\* named n: the last `limit` of the rows the query selects.
ShownTo(n, args) ==
    LET mine == {i \in DOMAIN history : Involves(history[i], n)}
    IN  {i \in mine : Cardinality({j \in mine : j > i}) < HistoryLimit(args)}

\* C22: every private message that /history in dm mode lists for a session
\* was sent by that session or was written to that session by send_to; no
\* session is shown a private message exchanged by other sessions, whatever
\* names these had or have.
C22_PrivateHistoryIsOwn ==
    \A s \in last.who :
        (last.line.cmd = "history" /\ HistoryDm(last.line.arg) /\ last.completed)
        => LET shown == ShownTo(nick[s], last.line.arg)
           IN  /\ Len(last.rec.writes) = Cardinality(shown) + 1
               /\ \A i \in shown : history[i].dm => (sent[i].by = s \/ s \in sent[i].to)

====
